---- MODULE Spec2Model ----
(***************************************************************************)
(* mini_metro_display: the departure aggregation of utils.py, and the     *)
(* polling worker and the paged display of mini_metro_display.py.          *)
(*                                                                         *)
(* Data.  A stop is its id; its haversine distance from the address is     *)
(* distance[stop].  A string (route short name, headsign, group key) is a  *)
(* sequence of pieces, so that f"{route} - {headsign}" is a concatenation. *)
(* An "HH:MM:SS" string is the record [h, m, s] of its three numbers, a    *)
(* service date is a day number, a datetime is [day, hour, minute, second].*)
(* A Python dict is the sequence of its entries in insertion order.        *)
(***************************************************************************)
EXTENDS Integers, Sequences, FiniteSets, TLC

\* ------------------------------------------------------------------ bounds
MaxStops == 2
MaxTrips == 2
MaxBusyTrips == 5
MaxDist == 2
MaxDay == 1
MaxHour == 49
MaxWorkerTrips == 2
MaxGroups == 9

\* --------------------------------------------------------------- constants
UPDATE_INTERVALS_TO_USE_CACHED_STOP_DATA == 30
MaxArrivalTimes == 4
items_per_page == 4

VARIABLES
    distance,               \* haversine distance of each stop from the address
    feed,                   \* the departures the API returns for each stop
    monitored_stop_list,    \* WorkerThread.monitored_stop_list / the call's stops
    update_intervals_to_use_cached_stop_data,
    pc,                     \* where the worker (or the isolated call) stands
    all_departures,         \* result of get_next_departures_for_stop_list
    upcoming,               \* result of get_upcoming_departures
    polled_stop_list,       \* the stop list the current iteration polled
    data_updated,           \* the payloads emitted by the current iteration
    narrowings,             \* narrowing iterations since the last refresh
    service_date,           \* get_corrected_datetime: arguments and result
    arrival_time,
    arrival_date,
    permuted_stop_list,     \* the same stops in another order, and the result
    permuted_departures,    \*   of get_next_departures_for_stop_list on them
    departure_info,         \* BusStopApp.departure_info
    current_page,           \* BusStopApp.current_page
    stacked_widget,         \* BusStopApp.stacked_widget: pages, current index
    page_indicator          \* BusStopApp.page_indicator

dt_vars == <<service_date, arrival_time, arrival_date>>

worker_vars == <<update_intervals_to_use_cached_stop_data, polled_stop_list,
                 data_updated, narrowings>>

order_vars == <<permuted_stop_list, permuted_departures>>

ui_vars == <<departure_info, current_page, stacked_widget, page_indicator>>

vars == <<distance, feed, monitored_stop_list,
          update_intervals_to_use_cached_stop_data, pc, all_departures,
          upcoming, polled_stop_list, data_updated, narrowings,
          service_date, arrival_time, arrival_date,
          permuted_stop_list, permuted_departures,
          departure_info, current_page, stacked_widget, page_indicator>>

\* ------------------------------------------------------------- basic data
\* The absent "estimated" arrival of a departure (JSON null).
None == [h |-> -1, m |-> -1, s |-> -1]

Sep == <<" - ">>

\* The instant of a datetime, in seconds: datetimes compare by it.
ToSeconds(dt) == ((dt.day * 24 + dt.hour) * 60 + dt.minute) * 60 + dt.second

haversine(stop) == distance[stop]

\* ------------------------------------------------- get_corrected_datetime
get_corrected_datetime(date, time) ==
    IF time.h > 23
    THEN [day |-> date + 1, hour |-> time.h % 24,
          minute |-> time.m, second |-> time.s]
    ELSE [day |-> date, hour |-> time.h,
          minute |-> time.m, second |-> time.s]

\* datetime.strptime(f"{date} {time}", "%Y-%m-%d %H:%M:%S"): %H takes 0..23
\* only and raises ValueError otherwise.
strptime(date, time) ==
    [raised |-> time.h > 23,
     value  |-> [day |-> date, hour |-> time.h,
                 minute |-> time.m, second |-> time.s]]

\* ------------------------------------------------------------ dict helpers
Keys(d) == {d[i].key : i \in DOMAIN d}

IndexOf(d, k) == CHOOSE i \in DOMAIN d : d[i].key = k

Get(d, k) == d[IndexOf(d, k)]

\* d[k] = entry: an existing key keeps its place, a new one goes last.
DictAssignAppendAlways(d, entry) == Append(d, entry)

DictAssign(d, entry) ==
    IF entry.key \in Keys(d)
    THEN [d EXCEPT ![IndexOf(d, entry.key)] = entry]
    ELSE Append(d, entry)

\* ------------------------------------- get_next_departures_for_stop_list
\* The realtime flag and arrival string of one departure (lines 162-169).
realtime_of(stop_departure) == stop_departure.estimated # None

arrival_of(stop_departure) ==
    IF stop_departure.estimated # None
    THEN stop_departure.estimated
    ELSE stop_departure.scheduled

cache_entry(stop, stop_departure, arrival_datetime) ==
    [key           |-> stop_departure.trip_id,
     departure     |-> stop_departure,
     closest_stop  |-> stop,
     distance      |-> haversine(stop),
     arrival_time  |-> arrival_datetime,
     realtime_data |-> realtime_of(stop_departure)]

IsCloserOrEqual(a, b) == a <= b

IsCloser(a, b) == a < b

\* The body of the inner loop for one departure of one stop.
track_departure(departures, stop, stop_departure) ==
    IF stop_departure.trip_id \notin Keys(departures)
    THEN [raised |-> FALSE,
          departures |->
            DictAssign(departures,
              cache_entry(stop, stop_departure,
                get_corrected_datetime(stop_departure.service_date,
                                       arrival_of(stop_departure))))]
    ELSE IF IsCloser(haversine(stop),
                     Get(departures, stop_departure.trip_id).distance)
    THEN LET parsed == strptime(stop_departure.service_date,
                                arrival_of(stop_departure))
         IN  IF parsed.raised
             THEN [raised |-> TRUE, departures |-> departures]
             ELSE [raised |-> FALSE,
                   departures |->
                     DictAssign(departures,
                       cache_entry(stop, stop_departure, parsed.value))]
    ELSE [raised |-> FALSE, departures |-> departures]

\* The (stop, departure) pairs in the order the two loops visit them.
RECURSIVE LoopItems(_, _)
LoopItems(stops, f) ==
    IF stops = <<>> THEN <<>>
    ELSE [j \in 1..Len(f[Head(stops)]) |->
             [stop |-> Head(stops), stop_departure |-> f[Head(stops)][j]]]
         \o LoopItems(Tail(stops), f)

RECURSIVE TrackAll(_, _)
TrackAll(items, departures) ==
    IF items = <<>> THEN [raised |-> FALSE, departures |-> departures]
    ELSE LET r == track_departure(departures, Head(items).stop,
                                  Head(items).stop_departure)
         IN  IF r.raised THEN r ELSE TrackAll(Tail(items), r.departures)

get_next_departures_for_stop_list(stops, f) ==
    TrackAll(LoopItems(stops, f), <<>>)

\* ----------------------------------------------- get_upcoming_departures
\* sorted(items, key=arrival_time): a stable sort.
GoesBeforeUnsorted(a, b) == TRUE

GoesBefore(a, b) == ToSeconds(a.arrival_time) <= ToSeconds(b.arrival_time)

RECURSIVE InsertSorted(_, _)
InsertSorted(sorted, e) ==
    IF sorted = <<>> THEN <<e>>
    ELSE IF GoesBefore(Head(sorted), e)
         THEN <<Head(sorted)>> \o InsertSorted(Tail(sorted), e)
         ELSE <<e>> \o sorted

RECURSIVE SortedByArrival(_)
SortedByArrival(items) ==
    IF items = <<>> THEN <<>>
    ELSE InsertSorted(SortedByArrival(SubSeq(items, 1, Len(items) - 1)),
                      items[Len(items)])

route_headsign_combo(departure) ==
    departure.route_short_name \o Sep \o departure.trip_headsign

HasRoomOffByOne(times) == Len(times) <= MaxArrivalTimes

HasRoom(times) == Len(times) < MaxArrivalTimes

\* The body of the grouping loop for one sorted trip (lines 313-355).
store_entry(departure_dict, trip_vals) ==
    LET combo == route_headsign_combo(trip_vals.departure) IN
    IF combo \notin Keys(departure_dict)
    THEN Append(departure_dict,
           [key           |-> combo,
            route         |-> trip_vals.departure.route_short_name,
            direction     |-> trip_vals.departure.trip_headsign,
            arrival_times |-> <<trip_vals.arrival_time>>,
            realtime_data |-> <<trip_vals.realtime_data>>,
            full_stop     |-> trip_vals.closest_stop])
    ELSE LET i == IndexOf(departure_dict, combo)
             g == departure_dict[i]
         IN  IF HasRoom(g.arrival_times)
             THEN [departure_dict EXCEPT ![i] =
                     [g EXCEPT
                        !.arrival_times = Append(@, trip_vals.arrival_time),
                        !.realtime_data = Append(@, trip_vals.realtime_data)]]
             ELSE departure_dict

RECURSIVE GroupAll(_, _)
GroupAll(sorted_departures, departure_dict) ==
    IF sorted_departures = <<>> THEN departure_dict
    ELSE GroupAll(Tail(sorted_departures),
                  store_entry(departure_dict, Head(sorted_departures)))

\* Lines 358-364: the stops of the groups, each id once, in group order.
RECURSIVE StopsWorthMonitoringNoDedupe(_, _)
StopsWorthMonitoringNoDedupe(groups, updated_stop_list) ==
    IF groups = <<>> THEN updated_stop_list
    ELSE StopsWorthMonitoringNoDedupe(Tail(groups),
           Append(updated_stop_list, Head(groups).full_stop))

RECURSIVE StopsWorthMonitoring(_, _)
StopsWorthMonitoring(groups, updated_stop_list) ==
    IF groups = <<>> THEN updated_stop_list
    ELSE StopsWorthMonitoring(Tail(groups),
           IF \E i \in DOMAIN updated_stop_list :
                 updated_stop_list[i] = Head(groups).full_stop
           THEN updated_stop_list
           ELSE Append(updated_stop_list, Head(groups).full_stop))

NoResult == [raised |-> FALSE, departure_dict |-> <<>>,
             updated_stop_list |-> <<>>]

get_upcoming_departures(stop_list, f) ==
    LET all == get_next_departures_for_stop_list(stop_list, f) IN
    IF all.raised
    THEN [raised |-> TRUE, departure_dict |-> <<>>, updated_stop_list |-> <<>>]
    ELSE LET departure_dict == GroupAll(SortedByArrival(all.departures), <<>>)
         IN  [raised |-> FALSE,
              departure_dict |-> departure_dict,
              updated_stop_list |-> StopsWorthMonitoring(departure_dict, <<>>)]

\* ------------------------------------------------------------------ inputs
Routes == {<<"A">>, <<"A", " - ", "B">>}
Headsigns == {<<"C">>, <<"B", " - ", "C">>}

\* Arrival strings either side of the service day's midnight.
Times == {[h |-> 23, m |-> 50, s |-> 0], [h |-> 24, m |-> 10, s |-> 0]}

\* What one stop may list for one trip: nothing, or a departure with a
\* scheduled arrival and an estimated one that is absent or differs from it.
Listings(times, estimates) ==
    {[listed |-> FALSE, estimated |-> None, scheduled |-> None]}
    \cup {l \in [listed : {TRUE}, estimated : {None} \cup estimates,
                  scheduled : times] : l.estimated # l.scheduled}

\* The departures list the API returns for a stop: its listed trips in trip
\* order, each with the trip's route and headsign.
RECURSIVE DeparturesOf(_, _, _, _)
DeparturesOf(stop, trips, info, listing) ==
    IF trips = <<>> THEN <<>>
    ELSE LET t == Head(trips)
             rest == DeparturesOf(stop, Tail(trips), info, listing)
         IN  IF listing[stop][t].listed
             THEN <<[trip_id          |-> t,
                     route_short_name |-> info[t].route,
                     trip_headsign    |-> info[t].headsign,
                     service_date     |-> 0,
                     estimated        |-> listing[stop][t].estimated,
                     scheduled        |-> listing[stop][t].scheduled]>> \o rest
             ELSE rest

Ident(n) == [i \in 1..n |-> i]

\* Every feed of nStops stops and nTrips trips over the given names and times.
Feeds(nStops, nTrips, routes, headsigns, times, estimates) ==
    {[s \in 1..nStops |-> DeparturesOf(s, Ident(nTrips), info, listing)] :
        info \in [1..nTrips -> [route : routes, headsign : headsigns]],
        listing \in [1..nStops -> [1..nTrips -> Listings(times, estimates)]]}

\* ------------------------------------------- the aggregation, in isolation
\* One call of each function on a drawn stop list and feed.  The stop list is
\* 1..n in order (distances are drawn, so every distance order occurs); the
\* feed is either a small timetable over all names and stops, or one busy
\* route at one stop.
NoDatetime == [day |-> 0, hour |-> 0, minute |-> 0, second |-> 0]

NoDepartures == [raised |-> FALSE, departures |-> <<>>]

DtIdle ==
    /\ service_date = 0
    /\ arrival_time = None
    /\ arrival_date = NoDatetime

WorkerIdle ==
    /\ update_intervals_to_use_cached_stop_data
          = UPDATE_INTERVALS_TO_USE_CACHED_STOP_DATA
    /\ polled_stop_list = <<>>
    /\ data_updated = <<>>
    /\ narrowings = 0

OrderIdle ==
    /\ permuted_stop_list = <<>>
    /\ permuted_departures = NoDepartures

\* BusStopApp.__init__: no data, page 0, an empty stack (whose current index
\* is -1), an indicator of no pages.
EmptyStack == [widgets |-> <<>>, current_index |-> -1]

UIIdle ==
    /\ departure_info = <<>>
    /\ current_page = 0
    /\ stacked_widget = EmptyStack
    /\ page_indicator = [total_pages |-> 0, current_page |-> 0]

AggInit ==
    /\ pc = "input"
    /\ all_departures = NoDepartures
    /\ upcoming = NoResult
    /\ DtIdle
    /\ WorkerIdle
    /\ OrderIdle
    /\ UIIdle
    /\ \/ \E n \in 0..MaxStops :
             /\ monitored_stop_list = Ident(n)
             /\ distance \in [1..n -> 1..MaxDist]
             /\ feed \in Feeds(n, MaxTrips, Routes, Headsigns, Times, Times)
       \/ /\ monitored_stop_list = <<1>>
          /\ distance = [s \in {1} |-> 1]
          /\ feed \in Feeds(1, MaxBusyTrips, {<<"A">>}, {<<"C">>}, Times, Times)

ApplyGetNextDepartures ==
    /\ pc = "input"
    /\ all_departures' =
           get_next_departures_for_stop_list(monitored_stop_list, feed)
    /\ pc' = "merged"
    /\ UNCHANGED <<distance, feed, monitored_stop_list, upcoming,
                   worker_vars, dt_vars,
                   order_vars, ui_vars>>

ApplyGetUpcomingDepartures ==
    /\ pc = "merged"
    /\ upcoming' = get_upcoming_departures(monitored_stop_list, feed)
    /\ pc' = "grouped"
    /\ UNCHANGED <<distance, feed, monitored_stop_list, all_departures,
                   worker_vars, dt_vars,
                   order_vars, ui_vars>>

AggNext == ApplyGetNextDepartures \/ ApplyGetUpcomingDepartures

SpecAgg == AggInit /\ [][AggNext]_vars

\* ------------------------------------ get_corrected_datetime, in isolation
\* One call on a drawn service date and "HH:MM:SS" string.
DtInit ==
    /\ pc = "dt_input"
    /\ service_date \in 0..MaxDay
    /\ arrival_time \in [h : 0..MaxHour, m : 0..59, s : {0, 30, 59}]
    /\ arrival_date = NoDatetime
    /\ distance = <<>>
    /\ feed = <<>>
    /\ monitored_stop_list = <<>>
    /\ all_departures = NoDepartures
    /\ upcoming = NoResult
    /\ WorkerIdle
    /\ OrderIdle
    /\ UIIdle

ApplyGetCorrectedDatetime ==
    /\ pc = "dt_input"
    /\ arrival_date' = get_corrected_datetime(service_date, arrival_time)
    /\ pc' = "dt_done"
    /\ UNCHANGED <<distance, feed, monitored_stop_list, all_departures,
                   upcoming, worker_vars, service_date, arrival_time,
                   order_vars, ui_vars>>

DtNext == ApplyGetCorrectedDatetime

SpecDT == DtInit /\ [][DtNext]_vars

\* get_nearby_stops: any list of distinct stops around the address.
StopLists ==
    {l \in UNION {[1..n -> 1..MaxStops] : n \in 0..MaxStops} :
        \A i, j \in DOMAIN l : l[i] = l[j] => i = j}

\* ----------------------- get_next_departures_for_stop_list, in two orders
\* One call on a drawn list of distinct stops and one on the same stops in
\* another order, against the same feed.  No two stops are equally far.
OrderDistances ==
    {d \in [1..MaxStops -> 1..(MaxDist + 1)] :
        \A a, b \in 1..MaxStops : d[a] = d[b] => a = b}

OrderFeeds == Feeds(MaxStops, MaxTrips, {<<"A">>}, {<<"C">>}, Times, Times)

OrderInit ==
    /\ pc = "order_input"
    /\ distance \in OrderDistances
    /\ feed \in OrderFeeds
    /\ monitored_stop_list \in StopLists
    /\ permuted_stop_list \in
          {l \in StopLists :
              {l[i] : i \in DOMAIN l}
                 = {monitored_stop_list[i] : i \in DOMAIN monitored_stop_list}}
    /\ all_departures = NoDepartures
    /\ permuted_departures = NoDepartures
    /\ upcoming = NoResult
    /\ DtIdle
    /\ WorkerIdle
    /\ UIIdle

ApplyInBothOrders ==
    /\ pc = "order_input"
    /\ all_departures' =
           get_next_departures_for_stop_list(monitored_stop_list, feed)
    /\ permuted_departures' =
           get_next_departures_for_stop_list(permuted_stop_list, feed)
    /\ pc' = "order_done"
    /\ UNCHANGED <<distance, feed, monitored_stop_list, permuted_stop_list,
                   upcoming, worker_vars, dt_vars, ui_vars>>

OrderNext == ApplyInBothOrders

SpecOrder == OrderInit /\ [][OrderNext]_vars

\* --------------------------------------------------------- WorkerThread.run
\* The feeds a poll may meet: two headsigns of one route, scheduled times only.
WorkerFeeds ==
    Feeds(MaxStops, MaxWorkerTrips, {<<"A">>}, Headsigns, Times, {})

Init ==
    /\ distance \in [1..MaxStops -> 1..MaxDist]
    /\ monitored_stop_list \in StopLists
    /\ update_intervals_to_use_cached_stop_data
          = UPDATE_INTERVALS_TO_USE_CACHED_STOP_DATA
    /\ pc = "call"
    /\ feed = [s \in 1..MaxStops |-> <<>>]
    /\ upcoming = NoResult
    /\ polled_stop_list = <<>>
    /\ data_updated = <<>>
    /\ narrowings = 0
    /\ all_departures = NoDepartures
    /\ DtIdle
    /\ OrderIdle
    /\ UIIdle

\* What the API returns when only the stops of the list are asked for.
FetchedFrom(f, stops) ==
    [s \in DOMAIN f |->
        IF \E i \in DOMAIN stops : stops[i] = s THEN f[s] ELSE <<>>]

\* Lines 52-54: the iteration's fetch and aggregation.  An exception leaves
\* run(), which ends the thread.
Poll ==
    /\ pc = "call"
    /\ \E f \in WorkerFeeds :
          /\ feed' = FetchedFrom(f, monitored_stop_list)
          /\ upcoming' = get_upcoming_departures(monitored_stop_list, feed')
    /\ pc' = IF upcoming'.raised THEN "raised" ELSE "update"
    /\ polled_stop_list' = monitored_stop_list
    /\ UNCHANGED <<distance, monitored_stop_list,
                   update_intervals_to_use_cached_stop_data, all_departures,
                   data_updated, narrowings, dt_vars,
                   order_vars, ui_vars>>

\* Lines 57-66.
NarrowStopList ==
    /\ pc = "update"
    /\ update_intervals_to_use_cached_stop_data # 0
    /\ monitored_stop_list' = upcoming.updated_stop_list
    /\ update_intervals_to_use_cached_stop_data'
          = update_intervals_to_use_cached_stop_data - 1
    /\ narrowings' = narrowings + 1
    /\ pc' = "emit"
    /\ UNCHANGED <<distance, feed, all_departures, upcoming, polled_stop_list,
                   data_updated, dt_vars,
                   order_vars, ui_vars>>

\* Lines 67-75.
RefreshStopList ==
    /\ pc = "update"
    /\ update_intervals_to_use_cached_stop_data = 0
    /\ monitored_stop_list' \in StopLists
    /\ update_intervals_to_use_cached_stop_data'
          = UPDATE_INTERVALS_TO_USE_CACHED_STOP_DATA
    /\ narrowings' = 0
    /\ pc' = "emit"
    /\ UNCHANGED <<distance, feed, all_departures, upcoming, polled_stop_list,
                   data_updated, dt_vars,
                   order_vars, ui_vars>>

\* Line 79.
Emit ==
    /\ pc = "emit"
    /\ data_updated' = Append(data_updated, upcoming.departure_dict)
    /\ pc' = "msleep"
    /\ UNCHANGED <<distance, feed, monitored_stop_list,
                   update_intervals_to_use_cached_stop_data, all_departures,
                   upcoming, polled_stop_list, narrowings, dt_vars,
                   order_vars, ui_vars>>

\* Line 81, and the loop's return to line 52: the iteration's values (the
\* fetched feed, display_data, updated_stops_list, the delivered signal) are
\* dead from here on and are dropped.
Sleep ==
    /\ pc = "msleep"
    /\ pc' = "call"
    /\ feed' = [s \in 1..MaxStops |-> <<>>]
    /\ upcoming' = NoResult
    /\ polled_stop_list' = <<>>
    /\ data_updated' = <<>>
    /\ UNCHANGED <<distance, monitored_stop_list,
                   update_intervals_to_use_cached_stop_data, all_departures,
                   narrowings, dt_vars,
                   order_vars, ui_vars>>

Next == Poll \/ NarrowStopList \/ RefreshStopList \/ Emit \/ Sleep

Spec == Init /\ [][Next]_vars

\* The thread, once started, keeps running: every step it can take it takes.
FairSpec == Spec /\ WF_vars(Next)

\* ------------------------------------------------------------ BusStopApp
\* QStackedWidget, as the handlers use it.  Indices count from 0 as in Qt;
\* the current index is -1 exactly when the stack is empty.
count(stack) == Len(stack.widgets)

\* setCurrentIndex: no widget at the index, or the current one, changes nothing.
setCurrentIndex(stack, index) ==
    IF index < 0 \/ index >= count(stack) \/ index = stack.current_index
    THEN stack
    ELSE [stack EXCEPT !.current_index = index]

\* removeWidget(widget(index)): a removed current widget hands over to the
\* widget that takes its place (the one before it when it was the last), a
\* widget removed below the current one shifts the current index down.
removeWidget(stack, index) ==
    IF index < 0 \/ index >= count(stack) THEN stack
    ELSE LET rest == SubSeq(stack.widgets, 1, index)
                     \o SubSeq(stack.widgets, index + 2, count(stack))
         IN  [widgets |-> rest,
              current_index |->
                 IF index = stack.current_index
                 THEN IF rest = <<>> THEN -1
                      ELSE IF index = Len(rest) THEN index - 1 ELSE index
                 ELSE IF index < stack.current_index
                      THEN stack.current_index - 1
                      ELSE stack.current_index]

\* addWidget: appended; the first widget of an empty stack becomes current.
addWidget(stack, widget) ==
    [widgets |-> Append(stack.widgets, widget),
     current_index |-> IF stack.current_index < 0 THEN count(stack)
                       ELSE stack.current_index]

\* Lines 174-175: for i in reversed(range(count())): removeWidget(widget(i)),
\* entered with i = count() - 1.
\* The same loop without reversed(): indices 0 .. i in rising order.
RECURSIVE RemovePagesForward(_, _)
RemovePagesForward(stack, i) ==
    IF i < 0 THEN stack
    ELSE removeWidget(RemovePagesForward(stack, i - 1), i)

RECURSIVE RemovePages(_, _)
RemovePages(stack, i) ==
    IF i < 0 THEN stack ELSE RemovePages(removeWidget(stack, i), i - 1)

total_pages_of(total_departures) ==
    (total_departures + items_per_page - 1) \div items_per_page

Min(a, b) == IF a < b THEN a ELSE b

\* Lines 185-193, 273: the rows of one page, one per item of the slice
\* list(departure_info.items())[start_index:end_index].
page_widget(info, page) ==
    LET start_index == page * items_per_page
        end_index == Min((page + 1) * items_per_page, Len(info))
    IN  SubSeq(info, start_index + 1, end_index)

\* Lines 184-276: for page in range(total_pages), entered with page = 0.
RECURSIVE AddPages(_, _, _, _)
AddPages(stack, info, page, total_pages) ==
    IF page >= total_pages THEN stack
    ELSE AddPages(addWidget(stack, page_widget(info, page)),
                  info, page + 1, total_pages)

\* The display data the worker may push: dicts of up to MaxGroups groups,
\* a group standing for its key and values, in several key orders.
DisplayData ==
    UNION {{[i \in 1..n |-> [key |-> ((i + r) % n) + 1]] : r \in 0..(n - 1)}
           \cup {[i \in 1..n |-> [key |-> n + 1 - i]]} \cup {<<>>} :
               n \in 0..MaxGroups}

UIInit ==
    /\ pc = "ui"
    /\ UIIdle
    /\ distance = <<>>
    /\ feed = <<>>
    /\ monitored_stop_list = <<>>
    /\ all_departures = NoDepartures
    /\ upcoming = NoResult
    /\ DtIdle
    /\ WorkerIdle
    /\ OrderIdle

\* Line 167: the page after the current one.
next_page_no_wrap(page, total_pages) == page + 1

next_page(page, total_pages) == (page + 1) % total_pages

\* Lines 163-170.
switch_page ==
    /\ pc' = "switch_page"
    /\ LET total_pages == count(stacked_widget) IN
       IF total_pages > 1
       THEN /\ current_page' = next_page(current_page, total_pages)
            /\ stacked_widget' = setCurrentIndex(stacked_widget, current_page')
            /\ page_indicator' =
                  [page_indicator EXCEPT !.current_page = current_page']
       ELSE UNCHANGED <<current_page, stacked_widget, page_indicator>>
    /\ UNCHANGED <<departure_info, distance, feed, monitored_stop_list,
                   all_departures, upcoming, worker_vars, dt_vars, order_vars>>

\* Lines 172-281.
update_table(display_data) ==
    LET emptied == RemovePages(stacked_widget, count(stacked_widget) - 1)
        total_pages == total_pages_of(Len(display_data))
        filled == AddPages(emptied, display_data, 0, total_pages)
    IN  /\ pc' = "update_table"
        /\ departure_info' = display_data
        /\ current_page' = 0
        /\ stacked_widget' = setCurrentIndex(filled, 0)
        /\ page_indicator' = [total_pages |-> total_pages, current_page |-> 0]
        /\ UNCHANGED <<distance, feed, monitored_stop_list, all_departures,
                       upcoming, worker_vars, dt_vars, order_vars>>

UINext == switch_page \/ \E display_data \in DisplayData :
                             update_table(display_data)

SpecUI == UIInit /\ [][UINext]_vars

\* ------------------------------------------------- claims on the aggregation
\* The (stop, departure) pairs of the call's input, in loop order.
InputItems == LoopItems(monitored_stop_list, feed)

TripsOf(items) == {items[i].stop_departure.trip_id : i \in DOMAIN items}

\* The places of the input that list trip t.
ListingPlaces(items, t) ==
    {i \in DOMAIN items : items[i].stop_departure.trip_id = t}

\* The first place, in loop order, among the closest stops listing trip t.
ClosestPlace(items, t) ==
    CHOOSE i \in ListingPlaces(items, t) :
        \A j \in ListingPlaces(items, t) :
            \/ distance[items[i].stop] < distance[items[j].stop]
            \/ /\ distance[items[i].stop] = distance[items[j].stop]
               /\ i <= j

\* The instant an arrival string of a service day denotes.
TrueDatetime(date, time) ==
    [day |-> date + time.h \div 24, hour |-> time.h % 24,
     minute |-> time.m, second |-> time.s]

Merged == pc \in {"merged", "grouped"} /\ ~all_departures.raised

\* C1: when get_next_departures_for_stop_list returns, its mapping has exactly
\* one entry per distinct trip id of the stops' departures: every listed trip
\* id is a key, every key is a listed trip id, and no key occurs twice.
C1_DedupeByTrip ==
    Merged =>
        LET d == all_departures.departures IN
        /\ Keys(d) = TripsOf(InputItems)
        /\ \A i, j \in DOMAIN d : d[i].key = d[j].key => i = j

\* A call that returned with two trips, one of them listed by two stops, the
\* later stop closer.
C1_Witness ==
    /\ Merged
    /\ LET items == InputItems IN
       /\ Cardinality(TripsOf(items)) = 2
       /\ \E i, j \in DOMAIN items :
              /\ i < j
              /\ items[i].stop # items[j].stop
              /\ items[i].stop_departure.trip_id
                    = items[j].stop_departure.trip_id
              /\ distance[items[j].stop] < distance[items[i].stop]

\* C2: when get_next_departures_for_stop_list returns, each trip's entry
\* records a stop that listed the trip, at the minimum distance over the
\* stops that listed it (the first such stop in stop-list order on a tie),
\* with the departure, arrival datetime and realtime flag of that stop.
C2_ClosestStopPerTrip ==
    Merged =>
        LET items == InputItems IN
        \A k \in DOMAIN all_departures.departures :
            LET e == all_departures.departures[k]
                item == items[ClosestPlace(items, e.key)]
                dep == item.stop_departure
                arrival == IF dep.estimated # None
                           THEN dep.estimated ELSE dep.scheduled
            IN  /\ e.closest_stop = item.stop
                /\ e.distance = distance[item.stop]
                /\ \A j \in ListingPlaces(items, e.key) :
                       e.distance <= distance[items[j].stop]
                /\ e.departure = dep
                /\ e.realtime_data = (dep.estimated # None)
                /\ e.arrival_time = TrueDatetime(dep.service_date, arrival)

\* A call that returned where a later, closer stop replaced the cached one
\* with another departure of the trip, and a second trip has one stop only.
C2_Witness ==
    /\ Merged
    /\ LET items == InputItems IN
       /\ \E i, j \in DOMAIN items :
              /\ i < j
              /\ items[i].stop_departure.trip_id
                    = items[j].stop_departure.trip_id
              /\ distance[items[j].stop] < distance[items[i].stop]
              /\ items[i].stop_departure # items[j].stop_departure
       /\ \E t \in TripsOf(items) : Cardinality(ListingPlaces(items, t)) = 1

\* ----------------------------------------- claims on get_upcoming_departures
Grouped == pc = "grouped" /\ ~upcoming.raised

\* The deduped trips whose "route - headsign" string is the key of group g.
MembersOf(deps, g) ==
    {k \in DOMAIN deps : route_headsign_combo(deps[k].departure) = g.key}

\* C3: every deduped trip is in exactly the group of its route short name and
\* headsign, and there is exactly one group per distinct (route short name,
\* headsign) pair of the deduped trips.
C3_GroupsByRouteAndDirection ==
    Grouped =>
        LET deps == all_departures.departures
            groups == upcoming.departure_dict
        IN  /\ \A k \in DOMAIN deps :
                   Cardinality(
                     {i \in DOMAIN groups :
                        /\ groups[i].route
                              = deps[k].departure.route_short_name
                        /\ groups[i].direction
                              = deps[k].departure.trip_headsign}) = 1
            /\ Len(groups) =
                 Cardinality({<<deps[k].departure.route_short_name,
                                deps[k].departure.trip_headsign>> :
                                k \in DOMAIN deps})

\* C4: every returned group has min(4, n) arrival times, n >= 1 the number of
\* deduped trips of the group, and as many realtime flags, entry i of both
\* coming from one trip of the group, different entries from different trips.
C4_CapAtFour ==
    Grouped =>
        LET deps == all_departures.departures
            groups == upcoming.departure_dict
        IN  \A i \in DOMAIN groups :
                LET g == groups[i]
                    members == MembersOf(deps, g)
                    len == Len(g.arrival_times)
                IN  /\ len = Min(4, Cardinality(members))
                    /\ len >= 1
                    /\ Len(g.realtime_data) = len
                    /\ \E f \in [1..len -> members] :
                           /\ \A a, b \in 1..len : f[a] = f[b] => a = b
                           /\ \A a \in 1..len :
                                  /\ g.arrival_times[a] = deps[f[a]].arrival_time
                                  /\ g.realtime_data[a]
                                        = deps[f[a]].realtime_data

\* A returned group of five trips whose flags and arrivals are not all alike.
C4_Witness ==
    /\ Grouped
    /\ \E i \in DOMAIN upcoming.departure_dict :
           LET g == upcoming.departure_dict[i] IN
           /\ Cardinality(MembersOf(all_departures.departures, g)) = 5
           /\ g.realtime_data[1] # g.realtime_data[2]
           /\ g.arrival_times[1] # g.arrival_times[4]

\* C5: in every returned group the arrival times are in non-decreasing order
\* and are the earliest min(4, n) arrivals of the group's n trips, and the
\* groups come in the order of their earliest arrival.
C5_SortedByArrival ==
    Grouped =>
        LET deps == all_departures.departures
            groups == upcoming.departure_dict
        IN  /\ \A i \in DOMAIN groups :
                   LET g == groups[i]
                       members == MembersOf(deps, g)
                       len == Len(g.arrival_times)
                       at(a) == ToSeconds(g.arrival_times[a])
                       kept(v) == Cardinality({a \in 1..len : at(a) = v})
                       due(v) == Cardinality(
                           {k \in members : ToSeconds(deps[k].arrival_time) = v})
                   IN  /\ len = Min(4, Cardinality(members))
                       /\ \A a \in 1..(len - 1) : at(a) <= at(a + 1)
                       /\ \A a \in 1..len : kept(at(a)) <= due(at(a))
                       /\ \A k \in members :
                              LET v == ToSeconds(deps[k].arrival_time) IN
                              v < at(len) => kept(v) = due(v)
            /\ \A i \in 1..(Len(groups) - 1) :
                   ToSeconds(groups[i].arrival_times[1])
                     <= ToSeconds(groups[i + 1].arrival_times[1])

\* A returned group of five trips where a trip listed after four others
\* arrives before one of them, so that the cap drops a trip listed earlier.
C5_Witness ==
    /\ Grouped
    /\ LET deps == all_departures.departures IN
       \E i \in DOMAIN upcoming.departure_dict :
           LET g == upcoming.departure_dict[i] IN
           /\ Cardinality(MembersOf(deps, g)) = 5
           /\ Len(deps) = 5
           /\ ToSeconds(deps[5].arrival_time) < ToSeconds(deps[1].arrival_time)
           /\ ToSeconds(g.arrival_times[1]) < ToSeconds(g.arrival_times[4])

\* C8: the stop recorded for a group is no farther than the closest stop of
\* any deduped trip of the group.
C8_GroupStopIsClosest ==
    Grouped =>
        LET deps == all_departures.departures
            groups == upcoming.departure_dict
        IN  \A i \in DOMAIN groups :
                \A k \in MembersOf(deps, groups[i]) :
                    distance[groups[i].full_stop] <= deps[k].distance

\* ------------------------------------------ claims on get_corrected_datetime
\* C10: for every service date and "HH:MM:SS" with HH >= 0 and MM, SS in
\* 0..59 the result is midnight of the service date plus HH hours, MM minutes
\* and SS seconds, also for HH >= 48.
C10_CorrectedDatetime ==
    pc = "dt_done" =>
        /\ arrival_date = TrueDatetime(service_date, arrival_time)
        /\ ToSeconds(arrival_date) =
              ((service_date * 24 + arrival_time.h) * 60 + arrival_time.m) * 60
              + arrival_time.s

\* --------------------------------------------------- claims on the worker
Range(l) == {l[i] : i \in DOMAIN l}

\* C6: the counter stays within 0..30; an iteration with the counter not 0
\* decrements it and takes the narrowed list; an iteration with the counter 0
\* resets it to 30, after exactly 30 narrowing iterations since the last
\* refresh (or the start); and a refresh occurs infinitely often.
C6_PeriodicRefresh ==
    /\ [](update_intervals_to_use_cached_stop_data
            \in 0..UPDATE_INTERVALS_TO_USE_CACHED_STOP_DATA)
    /\ [][(pc = "update" /\ pc' = "emit") =>
            IF update_intervals_to_use_cached_stop_data # 0
            THEN /\ update_intervals_to_use_cached_stop_data'
                      = update_intervals_to_use_cached_stop_data - 1
                 /\ monitored_stop_list' = upcoming.updated_stop_list
            ELSE /\ update_intervals_to_use_cached_stop_data' = 30
                 /\ narrowings = 30
                 /\ narrowings' = 0]_vars
    /\ []<>(pc = "emit" /\ narrowings = 0)

\* The part of C6 that does not need the worker to stay alive: the claim with
\* "a refresh occurs infinitely often" weakened by "or the thread has ended".
C6_UnlessRaised ==
    /\ [](update_intervals_to_use_cached_stop_data
            \in 0..UPDATE_INTERVALS_TO_USE_CACHED_STOP_DATA)
    /\ [][(pc = "update" /\ pc' = "emit") =>
            IF update_intervals_to_use_cached_stop_data # 0
            THEN /\ update_intervals_to_use_cached_stop_data'
                      = update_intervals_to_use_cached_stop_data - 1
                 /\ monitored_stop_list' = upcoming.updated_stop_list
            ELSE /\ update_intervals_to_use_cached_stop_data' = 30
                 /\ narrowings = 30
                 /\ narrowings' = 0]_vars
    /\ ([]<>(pc = "emit" /\ narrowings = 0)) \/ <>(pc = "raised")

\* C7: every iteration emits data_updated exactly once, with the grouped data
\* of its own get_upcoming_departures call on the list monitored at its start,
\* after its stop-list update and before its sleep: an iteration that is over
\* has emitted once, one that has not yet updated the list has not emitted.
C7_EveryIterationEmitsOnce ==
    /\ pc \in {"msleep", "raised"} =>
          /\ Len(data_updated) = 1
          /\ data_updated[1]
                = get_upcoming_departures(polled_stop_list, feed).departure_dict
    /\ pc \in {"update", "emit"} => data_updated = <<>>

\* The same for the iterations whose call returned.
C7_UnlessRaised ==
    /\ pc = "msleep" =>
          /\ Len(data_updated) = 1
          /\ data_updated[1]
                = get_upcoming_departures(polled_stop_list, feed).departure_dict
    /\ pc \in {"update", "emit"} => data_updated = <<>>

\* C9: the updated stop list of a returned call holds exactly the stops of
\* the returned groups, no stop twice, all of them stops of the list polled;
\* and a step of the worker other than the refresh never adds a stop to the
\* monitored list, so that an empty list stays empty until the refresh.
C9_Step ==
    /\ pc = "update" =>
          LET u == upcoming.updated_stop_list
              groups == upcoming.departure_dict
          IN  /\ Range(u) = {groups[i].full_stop : i \in DOMAIN groups}
              /\ \A i, j \in DOMAIN u : u[i] = u[j] => i = j
              /\ Range(u) \subseteq Range(polled_stop_list)
              /\ polled_stop_list = monitored_stop_list
    /\ ~(pc = "update" /\ update_intervals_to_use_cached_stop_data = 0) =>
          /\ Range(monitored_stop_list') \subseteq Range(monitored_stop_list)
          /\ Len(monitored_stop_list') <= Len(monitored_stop_list)
          /\ monitored_stop_list = <<>> => monitored_stop_list' = <<>>

C9_StopListNarrowing == [][C9_Step]_vars

\* A narrowing iteration that polled two stops and kept one, the stop of two
\* groups, and an earlier one that left the list empty.
C9_Witness ==
    /\ pc = "emit"
    /\ narrowings > 0
    /\ Len(polled_stop_list) = 2
    /\ Len(monitored_stop_list) = 1
    /\ Len(upcoming.departure_dict) = 2

C9_EmptyWitness ==
    /\ pc = "emit"
    /\ narrowings > 1
    /\ polled_stop_list = <<>>
    /\ monitored_stop_list = <<>>

\* An iteration that first polled the list a refresh had just fetched.
AfterRefresh == pc = "msleep" /\ narrowings = 1

C11_Safety ==
    /\ [](pc \in {"call", "update"} =>
            /\ update_intervals_to_use_cached_stop_data + narrowings
                  = UPDATE_INTERVALS_TO_USE_CACHED_STOP_DATA
            /\ narrowings <= 30)
    /\ [][/\ pc = "call" =>
                /\ polled_stop_list' = monitored_stop_list
                /\ upcoming' = get_upcoming_departures(monitored_stop_list,
                                                       feed')
          /\ (pc = "update" /\ narrowings = 30) =>
                /\ update_intervals_to_use_cached_stop_data = 0
                /\ narrowings' = 0
                /\ monitored_stop_list' \in StopLists
          /\ (pc \in {"emit", "msleep"} /\ narrowings = 0) =>
                monitored_stop_list' = monitored_stop_list
          /\ pc = "emit" =>
                data_updated' =
                  <<get_upcoming_departures(polled_stop_list,
                                            feed).departure_dict>>]_vars

\* C11: a stop missing from the narrowed list is polled again within a
\* bounded number of polls.  The iterations left before the refresh are the
\* counter's value, at most 30, so the refresh is at most the 31st iteration
\* from any state; the refresh takes a fresh list of nearby stops, which
\* stays the monitored list until the next iteration polls it and emits the
\* data computed from it; the refresh iteration itself emits the data of the
\* list it polled.  From any state the refresh is reached, and after it the
\* next iteration emits.
C11_RefreshPicksUpAllStops ==
    /\ C11_Safety
    /\ []<>(pc = "emit" /\ narrowings = 0)
    /\ (pc = "emit" /\ narrowings = 0) ~> AfterRefresh

\* The same with "or the thread has ended" for the two progress parts.
C11_UnlessRaised ==
    /\ C11_Safety
    /\ ([]<>(pc = "emit" /\ narrowings = 0)) \/ <>(pc = "raised")
    /\ (pc = "emit" /\ narrowings = 0) ~> (AfterRefresh \/ pc = "raised")

\* The iteration after a refresh polled two stops where the refresh
\* iteration had polled at most one.
C11_Witness ==
    /\ AfterRefresh
    /\ update_intervals_to_use_cached_stop_data
          = UPDATE_INTERVALS_TO_USE_CACHED_STOP_DATA - 1
    /\ Len(polled_stop_list) = 2
    /\ Len(upcoming.departure_dict) = 2

\* ------------------------- claims on the order of the stop list
\* The trip-to-(closest stop, distance, arrival datetime, realtime flag)
\* mapping of a returned dict.
MappingOf(departures) ==
    {[trip_id       |-> departures[i].key,
      closest_stop  |-> departures[i].closest_stop,
      distance      |-> departures[i].distance,
      arrival_time  |-> departures[i].arrival_time,
      realtime_data |-> departures[i].realtime_data] : i \in DOMAIN departures}

\* C12: for stops at pairwise distinct distances, the call on the stop list
\* and the call on any other order of it have the same outcome: both raise,
\* or both return and the two mappings are equal; so an arrival with hour 24
\* is converted the same way on the new-entry and on the replace branch.
C12_OrderIndependent ==
    pc = "order_done" =>
        /\ all_departures.raised = permuted_departures.raised
        /\ ~all_departures.raised =>
              MappingOf(all_departures.departures)
                 = MappingOf(permuted_departures.departures)

\* The same for the pairs of calls that both return.
C12_WhenBothReturn ==
    (/\ pc = "order_done"
     /\ ~all_departures.raised
     /\ ~permuted_departures.raised) =>
        MappingOf(all_departures.departures)
           = MappingOf(permuted_departures.departures)

\* Two orders of two stops that both return, where the closer stop replaced
\* the cached one in one order and was seen first in the other.
C12_Witness ==
    /\ pc = "order_done"
    /\ ~all_departures.raised
    /\ ~permuted_departures.raised
    /\ monitored_stop_list # permuted_stop_list
    /\ \E i \in DOMAIN all_departures.departures :
           LET e == all_departures.departures[i] IN
           /\ e.closest_stop = monitored_stop_list[2]
           /\ Cardinality(ListingPlaces(InputItems, e.key)) = 2

\* ------------------------------------------------- claims on the paged display
PageCount == count(stacked_widget)

\* What the claim says of the two handlers, step by step: update_table resets
\* current_page to 0; switch_page changes nothing with at most one page and
\* otherwise advances by one modulo the page count, the pages staying as
\* they are, so that repeated calls go through every page in cyclic order.
C13_Step ==
    /\ pc' = "update_table" => current_page' = 0
    /\ pc' = "switch_page" =>
          IF PageCount <= 1
          THEN UNCHANGED ui_vars
          ELSE /\ current_page' = (current_page + 1) % PageCount
               /\ stacked_widget'.widgets = stacked_widget.widgets
               /\ UNCHANGED departure_info

\* C13: after any sequence of update_table and switch_page calls,
\* current_page is 0 when there are no pages and within 0 .. page count - 1
\* otherwise, the stacked widget's current index and the page indicator's
\* current page equal current_page, and the two handlers move current_page
\* as C13_Step says.  The state part is stated of the states a call has left.
C13_PageIndexInvariant ==
    /\ [](pc \in {"update_table", "switch_page"} =>
            /\ PageCount = 0 => current_page = 0
            /\ PageCount > 0 => current_page \in 0..(PageCount - 1)
            /\ stacked_widget.current_index = current_page
            /\ page_indicator.current_page = current_page)
    /\ [][C13_Step]_vars

\* C13 as amended: the stacked widget's current index equals current_page
\* when there is a page, and is -1 when there is none.
C13_PageIndexWhenPages ==
    /\ [](/\ PageCount = 0 => current_page = 0
          /\ PageCount > 0 => current_page \in 0..(PageCount - 1)
          /\ PageCount > 0 => stacked_widget.current_index = current_page
          /\ PageCount = 0 => stacked_widget.current_index = -1
          /\ page_indicator.current_page = current_page)
    /\ [][C13_Step]_vars

\* switch_page has just wrapped around from the last of three pages.
C13_Witness ==
    /\ pc = "switch_page"
    /\ PageCount = 3
    /\ current_page = 0
    /\ stacked_widget.current_index = 0
    /\ page_indicator = [total_pages |-> 3, current_page |-> 0]

\* update_table has just shown no page where there were some.
C13_EmptyWitness ==
    /\ pc = "update_table"
    /\ PageCount = 0
    /\ page_indicator.total_pages = 0

\* The places (page, row) of the stack that show group g.
PlacesOf(pages, g) ==
    {pr \in UNION {{<<p, r>> : r \in DOMAIN pages[p]} : p \in DOMAIN pages} :
        pages[pr[1]][pr[2]] = g}

\* C14: when update_table has run on data of n groups, the stack holds
\* ceil(n / 4) pages and no other (none for n = 0); page p, counted from 0,
\* holds the groups at positions 4p .. min(4p + 4, n) - 1 of the data, in the
\* data's order; every page has 1 to 4 rows and only the last may have fewer
\* than 4; every group is on exactly one page, in one row; and the page
\* indicator's total_pages is the number of pages.
C14_Pagination ==
    pc = "update_table" =>
        LET n == Len(departure_info)
            pages == stacked_widget.widgets
            total == Len(pages)
        IN  /\ 4 * total >= n
            /\ 4 * total < n + 4
            /\ n = 0 => total = 0
            /\ \A p \in 0..(total - 1) :
                   LET first == 4 * p
                       last == Min(4 * p + 4, n) - 1
                   IN  /\ Len(pages[p + 1]) = last - first + 1
                       /\ \A k \in 0..(last - first) :
                              pages[p + 1][k + 1] = departure_info[first + k + 1]
                       /\ Len(pages[p + 1]) \in 1..4
                       /\ p < total - 1 => Len(pages[p + 1]) = 4
            /\ \A i \in 1..n :
                   Cardinality(PlacesOf(pages, departure_info[i])) = 1
            /\ page_indicator.total_pages = total

\* update_table has built three pages of nine groups, the last of one row,
\* from data whose first key is not the smallest.
C14_Witness ==
    /\ pc = "update_table"
    /\ Len(departure_info) = 9
    /\ departure_info[1].key # 1
    /\ Len(stacked_widget.widgets) = 3
    /\ Len(stacked_widget.widgets[3]) = 1

====
